---------------------------- MODULE Spec2Model ----------------------------
(***************************************************************************)
(* A model of mopidy_youtube/youtube.py: the dynamic thread pool           *)
(* (ThreadPool), the memoised entity factory (Entry.get), the lazily       *)
(* created field futures (async_property, Entry._add_futures,              *)
(* Entry._set_api_data) and the jobs that populate them                    *)
(* (Video.load_info, Playlist.load_info, Playlist.videos, Video.audio_url).*)
(*                                                                         *)
(* Python threads interleave between bytecodes, so every read or write of  *)
(* shared state that the code does not put under ThreadPool.lock is a step *)
(* of its own.                                                             *)
(***************************************************************************)
EXTENDS Naturals, Sequences, FiniteSets, TLC

VARIABLES
    jobs,            \* ThreadPool.jobs: list of (f, args), appended at the end
    threads_active,  \* ThreadPool.threads_active
    lock,            \* ThreadPool.lock: "free" or the thread holding it
    pc,              \* position of every thread in its code
    arg,             \* the (f, args) a thread is passing to ThreadPool.run
    ret,             \* where a thread continues after ThreadPool.run returns
    cur,             \* the (f, args) a worker popped and is executing
    closed,          \* environment: callers have stopped submitting jobs
    raised,          \* history: some job raised inside a worker
    objs,            \* the Video and Playlist instances: class, id, __dict__
    futs,            \* the pykka.ThreadingFuture objects
    cache,           \* the lru_cache of Entry.get: (cls, id) -> instance
    fr,              \* the local variables of every thread
    res,             \* history: what each caller's last property access returned
    gres,            \* history: what each caller's last Entry.get returned
    nsub,            \* history: jobs handed to ThreadPool.run, per instance
    nops,            \* history: operations the callers have started
    served           \* history: pages list_playlistitems has returned

poolvars == <<jobs, threads_active, lock>>
evars == <<objs, futs, cache, fr, res, gres, nsub, nops, served>>
vars == <<jobs, threads_active, lock, pc, arg, ret, cur, closed, raised, evars>>

---------------------------------------------------------------------------
(* Bounds and program constants *)

\* ThreadPool.threads_max
threads_max == 2

\* number of distinct opaque jobs that callers of ThreadPool.run have in the
\* pool at once (a label is used again once its job has finished): in the
\* safety specification, and in the specification with fairness
MaxJobs == 3
MaxLiveJobs == 2

\* operations the callers start
MaxOps == 2

\* pages list_playlistitems returns before the remote starts to raise, where
\* two enumerations run at once
RaceMaxPages == 1

Consumers == {"c1", "c2"}
\* the caller of ThreadPool.run in the pool's own specification; jobs that
\* call run themselves are the other submitters
PoolCallers == {"c1"}
\* thread objects a run() may start; one more than threads_max so that a
\* pool that over-spawns has a thread to start
WorkerIds == {"w1", "w2", "w3"}
Threads == Consumers \cup WorkerIds

JobIds == 1..MaxJobs
LiveJobIds == 1..MaxLiveJobs
NoJob == [kind |-> "none"]

\* f(*args) as the pool sees it: it returns, it raises, or it calls
\* ThreadPool.run itself (as Playlist.videos' job does) and returns
Behaviours == {"ret", "raise", "nest"}
OpaqueJob(j, b, k) == [kind |-> "f", id |-> j, beh |-> b, child |-> k]

---------------------------------------------------------------------------
(* ThreadPool *)

Queued(j) == \E i \in 1..Len(jobs) : jobs[i].kind = "f" /\ jobs[i].id = j
Running(j) == \E w \in WorkerIds : cur[w].kind = "f" /\ cur[w].id = j
Submitting(j) == \E t \in Threads : arg[t].kind = "f" /\ arg[t].id = j
Reserved(j) ==
    \/ \E i \in 1..Len(jobs) :
          jobs[i].kind = "f" /\ jobs[i].beh = "nest" /\ jobs[i].child = j
    \/ \E t \in Threads :
          \/ cur[t].kind = "f" /\ cur[t].beh = "nest" /\ cur[t].child = j
          \/ arg[t].kind = "f" /\ arg[t].beh = "nest" /\ arg[t].child = j
FreeJob(j) == ~Queued(j) /\ ~Running(j) /\ ~Submitting(j) /\ ~Reserved(j)

Live(w) == pc[w] # "dead"

\* cls.lock.acquire(), at the top of run
RunAcquire(t) ==
    /\ pc[t] = "run_acquire"
    /\ lock = "free"
    /\ lock' = t
    /\ pc' = [pc EXCEPT ![t] = "run_append"]
    /\ UNCHANGED <<jobs, threads_active, arg, ret, cur, closed, raised, evars>>

\* cls.jobs.append((f, args))
RunAppend(t) ==
    /\ pc[t] = "run_append"
    /\ jobs' = Append(jobs, arg[t])
    /\ pc' = [pc EXCEPT ![t] = "run_spawn"]
    /\ UNCHANGED <<threads_active, lock, arg, ret, cur, closed, raised, evars>>

CanSpawnOffByOne == threads_active <= threads_max

\* if cls.threads_active < cls.threads_max
CanSpawn == threads_active < threads_max

\* threading.Thread(target=cls.worker); thread.start()
RunSpawn(t) ==
    /\ pc[t] = "run_spawn"
    /\ IF CanSpawn
       THEN /\ \E w \in WorkerIds : ~Live(w)
            /\ LET w == CHOOSE x \in WorkerIds : ~Live(x)
               IN pc' = [pc EXCEPT ![t] = "run_inc", ![w] = "acquire"]
       ELSE pc' = [pc EXCEPT ![t] = "run_release"]
    /\ UNCHANGED <<jobs, threads_active, lock, arg, ret, cur, closed, raised, evars>>

RunIncForgotten(t) ==
    /\ pc[t] = "run_inc"
    /\ pc' = [pc EXCEPT ![t] = "run_release"]
    /\ UNCHANGED <<jobs, threads_active, lock, arg, ret, cur, closed, raised, evars>>

\* cls.threads_active += 1
RunInc(t) ==
    /\ pc[t] = "run_inc"
    /\ threads_active' = threads_active + 1
    /\ pc' = [pc EXCEPT ![t] = "run_release"]
    /\ UNCHANGED <<jobs, lock, arg, ret, cur, closed, raised, evars>>

\* cls.lock.release(); run returns to its caller
RunRelease(t) ==
    /\ pc[t] = "run_release"
    /\ lock' = "free"
    /\ pc' = [pc EXCEPT ![t] = ret[t]]
    /\ arg' = [arg EXCEPT ![t] = NoJob]
    /\ UNCHANGED <<jobs, threads_active, ret, cur, closed, raised, evars>>

\* cls.lock.acquire(), at the top of the worker's loop
WAcquire(w) ==
    /\ pc[w] = "acquire"
    /\ lock = "free"
    /\ lock' = w
    /\ pc' = [pc EXCEPT ![w] = "fetch"]
    /\ UNCHANGED <<jobs, threads_active, arg, ret, cur, closed, raised, evars>>

HasJobsOffByOne == Len(jobs) > 1

\* if len(cls.jobs)
HasJobs == Len(jobs) > 0

ExitCountKept == threads_active

\* cls.threads_active -= 1
ExitCount == threads_active - 1

\* f, args = cls.jobs.pop()   or   cls.threads_active -= 1
WFetch(w) ==
    /\ pc[w] = "fetch"
    /\ IF HasJobs
       THEN /\ cur' = [cur EXCEPT ![w] = jobs[Len(jobs)]]
            /\ jobs' = SubSeq(jobs, 1, Len(jobs) - 1)
            /\ pc' = [pc EXCEPT ![w] = "release_exec"]
            /\ UNCHANGED threads_active
       ELSE /\ threads_active' = ExitCount
            /\ pc' = [pc EXCEPT ![w] = "release_exit"]
            /\ UNCHANGED <<jobs, cur>>
    /\ UNCHANGED <<lock, arg, ret, closed, raised, evars>>

WReleaseAfterJob(w) ==
    /\ pc[w] \in {"release_exec", "release_exit"}
    /\ lock' = IF pc[w] = "release_exec" THEN lock ELSE "free"
    /\ pc' = [pc EXCEPT ![w] = IF pc[w] = "release_exec" THEN "exec" ELSE "dead"]
    /\ UNCHANGED <<jobs, threads_active, arg, ret, cur, closed, raised, evars>>

\* cls.lock.release(), then the job or the break
WRelease(w) ==
    /\ pc[w] \in {"release_exec", "release_exit"}
    /\ lock' = "free"
    /\ pc' = [pc EXCEPT ![w] = IF pc[w] = "release_exec" THEN "exec" ELSE "dead"]
    /\ UNCHANGED <<jobs, threads_active, arg, ret, cur, closed, raised, evars>>

RaisedPcCrash == "dead"

\* except Exception as e: logger.error(...), and the loop goes on
RaisedPc == "acquire"

\* apply(f, args) for a job the pool knows nothing about
WExecOpaque(w) ==
    /\ pc[w] = "exec"
    /\ cur[w].kind = "f"
    /\ CASE cur[w].beh = "ret" ->
              /\ pc' = [pc EXCEPT ![w] = "acquire"]
              /\ cur' = [cur EXCEPT ![w] = NoJob]
              /\ UNCHANGED <<arg, ret, raised>>
         [] cur[w].beh = "raise" ->
              /\ pc' = [pc EXCEPT ![w] = RaisedPc]
              /\ cur' = [cur EXCEPT ![w] = NoJob]
              /\ raised' = TRUE
              /\ UNCHANGED <<arg, ret>>
         [] cur[w].beh = "nest" ->
              /\ pc' = [pc EXCEPT ![w] = "run_acquire"]
              /\ arg' = [arg EXCEPT ![w] = OpaqueJob(cur[w].child, "ret", 0)]
              /\ ret' = [ret EXCEPT ![w] = "job_end"]
              /\ UNCHANGED <<cur, raised>>
    /\ UNCHANGED <<jobs, threads_active, lock, closed, evars>>

\* the job returns to the worker's loop
WJobEnd(w) ==
    /\ pc[w] = "job_end"
    /\ pc' = [pc EXCEPT ![w] = "acquire"]
    /\ cur' = [cur EXCEPT ![w] = NoJob]
    /\ UNCHANGED <<jobs, threads_active, lock, arg, ret, closed, raised, evars>>

\* a caller invokes ThreadPool.run(f, args); the job is labelled with the
\* least label not in use (and a job that submits another one, with the next)
CallRun(c, j, b, k) ==
    /\ pc[c] = "idle"
    /\ ~closed
    /\ FreeJob(j) /\ \A i \in 1..(j - 1) : ~FreeJob(i)
    /\ IF b = "nest"
       THEN k > j /\ FreeJob(k) /\ \A i \in (j + 1)..(k - 1) : ~FreeJob(i)
       ELSE k = 0
    /\ arg' = [arg EXCEPT ![c] = OpaqueJob(j, b, k)]
    /\ ret' = [ret EXCEPT ![c] = "idle"]
    /\ pc' = [pc EXCEPT ![c] = "run_acquire"]
    /\ UNCHANGED <<jobs, threads_active, lock, cur, closed, raised, evars>>

\* the callers stop submitting
Close ==
    /\ ~closed
    /\ closed' = TRUE
    /\ UNCHANGED <<jobs, threads_active, lock, pc, arg, ret, cur, raised, evars>>

---------------------------------------------------------------------------
(* ThreadPool's two critical sections, each as one step: what run and the  *)
(* worker do between lock.acquire() and lock.release() touches only jobs   *)
(* and threads_active, which no code touches without the lock              *)

\* run: acquire; jobs.append((f, args)); if threads_active < threads_max:
\* start a thread, threads_active += 1; release; return
RunLocked(t) ==
    /\ pc[t] = "run_acquire"
    /\ lock = "free"
    /\ jobs' = Append(jobs, arg[t])
    /\ IF CanSpawn
       THEN /\ \E w \in WorkerIds : ~Live(w)
            /\ LET w == CHOOSE x \in WorkerIds : ~Live(x)
               IN pc' = [pc EXCEPT ![t] = ret[t], ![w] = "acquire"]
            /\ threads_active' = threads_active + 1
       ELSE /\ pc' = [pc EXCEPT ![t] = ret[t]]
            /\ UNCHANGED threads_active
    /\ arg' = [arg EXCEPT ![t] = NoJob]
    /\ UNCHANGED <<lock, ret, cur, closed, raised, evars>>

\* worker: acquire; if len(jobs): f, args = jobs.pop() else:
\* threads_active -= 1, release, break; release
WorkerLocked(w) ==
    /\ pc[w] = "acquire"
    /\ lock = "free"
    /\ IF HasJobs
       THEN /\ cur' = [cur EXCEPT ![w] = jobs[Len(jobs)]]
            /\ jobs' = SubSeq(jobs, 1, Len(jobs) - 1)
            /\ pc' = [pc EXCEPT ![w] = "exec"]
            /\ UNCHANGED threads_active
       ELSE /\ threads_active' = ExitCount
            /\ pc' = [pc EXCEPT ![w] = "dead"]
            /\ UNCHANGED <<jobs, cur>>
    /\ UNCHANGED <<lock, arg, ret, closed, raised, evars>>

---------------------------------------------------------------------------
(* Entry, Video, Playlist: data *)

\* Playlist.max_videos (overridable by config), scaled down
max_videos == 2

\* the remote playlist "p1" as list_playlistitems pages it: one video a page
RemotePages == << <<"v1">>, <<"v2">>, <<"v1">> >>

VideoFields == <<"title", "length", "channel">>
PlaylistFields == <<"title", "video_count", "thumbnails", "channel">>
AllFields ==
    {"title", "channel", "length", "video_count", "thumbnails", "videos",
     "audio_url"}
InfoFields(cls) == IF cls = "Video" THEN VideoFields ELSE PlaylistFields
InfoJobKind(cls) == IF cls = "Video" THEN "video_info" ELSE "playlist_info"
Range(seq) == {seq[n] : n \in 1..Len(seq)}

\* obj.__dict__ of a new instance: no '_' + field in it
EmptyDict == [f \in AllFields |-> 0]
\* pykka.ThreadingFuture(): nothing in its queue; sets counts the set() calls
NewFuture == [set |-> FALSE, val |-> "unset", sets |-> 0]

Keys ==
    {<<"Video", "v1">>, <<"Video", "v2">>, <<"Video", "v3">>,
     <<"Video", "v4">>, <<"Playlist", "p1">>}

\* Entry.cache_max_len, the maxsize of the one lru_cache that Entry.get is
\* wrapped in (Video.get and Playlist.get share it), scaled down
cache_max_len == 4

\* the locals of a thread outside every function
Frame0 ==
    [cls |-> "", id |-> "", gret |-> "", obj |-> 0, fld |-> "",
     list |-> <<>>, i |-> 0, k |-> 0, added |-> FALSE, out |-> <<>>,
     lcls |-> "", lret |-> "",
     sobj |-> 0, sflds |-> <<>>, sk |-> 0, sitem |-> "", ssrc |-> "",
     sfut |-> 0, sval |-> "", sret |-> "",
     failed |-> FALSE, vi |-> 0,
     all |-> <<>>, page |-> 0, my |-> <<>>, items |-> <<>>, ii |-> 0,
     data |-> "", over |-> {}, maxres |-> 0, subs |-> <<>>, lack |-> {}]

NoRes == [obj |-> 0, fld |-> "", fut |-> 0, none |-> FALSE, out |-> <<>>]
NoGet == [cls |-> "", id |-> "", obj |-> 0, over |-> {}]

EntityInit ==
    /\ objs = <<>>
    /\ futs = <<>>
    /\ cache = [key \in Keys |-> 0]
    /\ fr = [t \in Threads |-> Frame0]
    /\ res = [t \in Consumers |-> NoRes]
    /\ gres = [t \in Threads |-> NoGet]
    /\ nsub = <<>>
    /\ nops = 0
    /\ served = 0

\* the value _set_api_data computes for field k from item; "KeyError" when
\* the item lacks what the field is read from
ItemValue(k, item, src) ==
    CASE item = "absent" -> "None"
      [] item = "nosnippet" /\ k \in {"title", "channel", "thumbnails"} -> "KeyError"
      [] item = "notitle" /\ k = "title" -> "KeyError"
      [] item = "nodetails" /\ k \in {"length", "video_count"} -> "KeyError"
      [] OTHER -> src

\* an exception leaves the job: the worker's except clause catches it
JobRaises(w) ==
    /\ pc' = [pc EXCEPT ![w] = RaisedPc]
    /\ cur' = [cur EXCEPT ![w] = NoJob]
    /\ fr' = [fr EXCEPT ![w] = Frame0]
    /\ raised' = TRUE

\* what Entry.search returns from its except clauses
SearchNone == [NoRes EXCEPT !.fld = "search", !.none = TRUE]

SearchExceptReraises(t) ==
    /\ pc' = [pc EXCEPT ![t] = "raised"]
    /\ fr' = [fr EXCEPT ![t] = Frame0]
    /\ UNCHANGED res

\* Entry.search: except Exception as e: logger.error(...); return None
SearchExcept(t) ==
    /\ pc' = [pc EXCEPT ![t] = "idle"]
    /\ fr' = [fr EXCEPT ![t] = Frame0]
    /\ res' = [res EXCEPT ![t] = SearchNone]

\* an exception leaves _set_api_data: in a job it reaches the worker, in
\* Entry.search (the only caller outside a job) the except clause around map
Raises(t) ==
    IF t \in WorkerIds
    THEN JobRaises(t) /\ UNCHANGED res
    ELSE SearchExcept(t) /\ UNCHANGED <<cur, raised>>

\* the job returns
JobReturns(w) ==
    /\ pc' = [pc EXCEPT ![w] = "acquire"]
    /\ cur' = [cur EXCEPT ![w] = NoJob]
    /\ fr' = [fr EXCEPT ![w] = Frame0]
    /\ UNCHANGED raised

---------------------------------------------------------------------------
(* Entry.get: the wrapper lru_cache puts around it looks the key up, calls *)
(* the function on a miss and puts the result, without holding a lock from *)
(* the lookup to the put                                                   *)

InGet(u, cls, id) ==
    /\ pc[u] \in {"get_lookup", "get_put"}
    /\ fr[u].cls = cls
    /\ fr[u].id = id

\* the frames after thread t has called cls.get(id), to continue at gret;
\* over records the threads whose get of the same key is going on
CallGet(t, cls, id, gret) ==
    [u \in Threads |->
        IF u = t
        THEN [fr[t] EXCEPT !.cls = cls, !.id = id, !.gret = gret, !.obj = 0,
                           !.over = {v \in Threads \ {t} : InGet(v, cls, id)}]
        ELSE IF InGet(u, cls, id)
             THEN [fr[u] EXCEPT !.over = @ \cup {t}]
             ELSE fr[u]]

GetResult(t, o) ==
    [cls |-> fr[t].cls, id |-> fr[t].id, obj |-> o, over |-> fr[t].over]

\* val = cache.get(arg, marker); if val is marker: ...; return val
GetLookup(t) ==
    /\ pc[t] = "get_lookup"
    /\ LET o == cache[<<fr[t].cls, fr[t].id>>]
       IN IF o # 0
          THEN /\ fr' = [fr EXCEPT ![t].obj = o]
               /\ gres' = [gres EXCEPT ![t] = GetResult(t, o)]
               /\ pc' = [pc EXCEPT ![t] = fr[t].gret]
          ELSE /\ pc' = [pc EXCEPT ![t] = "get_put"]
               /\ UNCHANGED <<fr, gres>>
    /\ UNCHANGED <<poolvars, arg, ret, cur, closed, raised, objs, futs, cache,
                   res, nsub, nops, served>>

\* found: a search has returned the instance in its list
NoSub == [info |-> 0, videos |-> 0, audio_url |-> 0, found |-> FALSE]

\* the keys the cache holds a value for
Resident == {k \in Keys : cache[k] # 0}

\* what cache.put(key, val) throws out: nothing while the key is held (its
\* value is replaced) or a slot is empty, otherwise one held key; which one
\* is up to the cache's replacement policy
Evicted(key) ==
    IF key \in Resident \/ Cardinality(Resident) < cache_max_len
    THEN {{}}
    ELSE {{v} : v \in Resident}

\* obj = cls(); obj.id = id; cache.put(arg, obj); return obj
GetPut(t) ==
    /\ pc[t] = "get_put"
    /\ LET o == Len(objs) + 1
           key == <<fr[t].cls, fr[t].id>>
       IN /\ objs' = Append(objs, [cls |-> fr[t].cls, id |-> fr[t].id,
                                   d |-> EmptyDict])
          /\ nsub' = Append(nsub, NoSub)
          /\ \E out \in Evicted(key) :
                cache' = [k \in Keys |-> IF k = key THEN o
                                         ELSE IF k \in out THEN 0
                                         ELSE cache[k]]
          /\ fr' = [fr EXCEPT ![t].obj = o]
          /\ gres' = [gres EXCEPT ![t] = GetResult(t, o)]
          /\ pc' = [pc EXCEPT ![t] = fr[t].gret]
    /\ UNCHANGED <<poolvars, arg, ret, cur, closed, raised, futs, res, nops, served>>

---------------------------------------------------------------------------
(* async_property, Entry._add_futures, load_info *)

\* a caller evaluates cls.get(id).fld
StartOp(c, op) ==
    /\ pc[c] = "idle"
    /\ nops < MaxOps
    /\ fr' = [CallGet(c, op[1], op[2], "prop_check") EXCEPT ![c].fld = op[3]]
    /\ gres' = [gres EXCEPT ![c] = NoGet]
    /\ res' = [res EXCEPT ![c] = NoRes]
    /\ nops' = nops + 1
    /\ pc' = [pc EXCEPT ![c] = "get_lookup"]
    /\ UNCHANGED <<poolvars, arg, ret, cur, closed, raised, objs, futs, cache,
                   nsub, served>>

FieldMissingInverted(o, f) == objs[o].d[f] # 0

\* '_' + k not in obj.__dict__
FieldMissing(o, f) == objs[o].d[f] = 0

\* the frame with load_info(list) of class cls entered, to continue at lret;
\* lack records the entities of list that lack a future of the field set
EnterLoadInfo(f0, cls, list, lret) ==
    [f0 EXCEPT !.list = list, !.lcls = cls, !.lret = lret, !.i = 1, !.k = 1,
               !.added = FALSE, !.out = <<>>,
               !.lack = {o \in Range(list) :
                           \E f \in Range(InfoFields(cls)) : objs[o].d[f] = 0}]

\* wrapper: if _future_name not in self.__dict__: apply(func, (self,))
PropCheck(t) ==
    /\ pc[t] = "prop_check"
    /\ LET o == fr[t].obj
           f == fr[t].fld
       IN IF objs[o].d[f] # 0
          THEN /\ pc' = [pc EXCEPT ![t] = "prop_ret"]
               /\ UNCHANGED fr
          ELSE IF f \in Range(InfoFields(objs[o].cls))
               THEN /\ fr' = [fr EXCEPT ![t] =
                                EnterLoadInfo(@, objs[o].cls, <<o>>, "prop_ret")]
                    /\ pc' = [pc EXCEPT ![t] = "af_check"]
               ELSE /\ pc' = [pc EXCEPT ![t] = "own_assign"]
                    /\ UNCHANGED fr
    /\ UNCHANGED <<poolvars, arg, ret, cur, closed, raised, objs, futs, cache,
                   res, gres, nsub, nops, served>>

\* Playlist.videos, Video.audio_url: self._videos = pykka.ThreadingFuture(),
\* def job ..., ThreadPool.run(job) is called
OwnAssign(t) ==
    /\ pc[t] = "own_assign"
    /\ LET o == fr[t].obj
           f == fr[t].fld
       IN /\ futs' = Append(futs, NewFuture)
          /\ objs' = [objs EXCEPT ![o].d[f] = Len(futs) + 1]
          /\ arg' = [arg EXCEPT ![t] = [kind |-> f, obj |-> o, list |-> <<>>]]
          /\ nsub' = [nsub EXCEPT ![o][f] = @ + 1]
    /\ ret' = [ret EXCEPT ![t] = "prop_ret"]
    /\ pc' = [pc EXCEPT ![t] = "run_acquire"]
    /\ UNCHANGED <<poolvars, cur, closed, raised, cache, fr, res, gres, nops, served>>

\* _add_futures: the frame and the position after field k of object i
AfNext(f0) ==
    IF f0.k < Len(InfoFields(f0.lcls))
    THEN [frame |-> [f0 EXCEPT !.k = @ + 1], pc |-> "af_check"]
    ELSE LET out == IF f0.added THEN Append(f0.out, f0.list[f0.i]) ELSE f0.out
         IN IF f0.i < Len(f0.list)
            THEN [frame |-> [f0 EXCEPT !.out = out, !.i = @ + 1, !.k = 1,
                                       !.added = FALSE],
                  pc |-> "af_check"]
            ELSE [frame |-> [f0 EXCEPT !.out = out, !.i = 0, !.k = 0,
                                       !.added = FALSE, !.list = <<>>],
                  pc |-> "li_batch"]

\* the list load_info is given is empty: nothing to add, nothing to submit
AfStart(f0) ==
    IF f0.list = <<>>
    THEN [frame |-> [f0 EXCEPT !.i = 0, !.k = 0], pc |-> "li_batch"]
    ELSE [frame |-> f0, pc |-> "af_check"]

\* add: if '_' + k not in obj.__dict__
AfCheck(t) ==
    /\ pc[t] = "af_check"
    /\ LET o == fr[t].list[fr[t].i]
           f == InfoFields(fr[t].lcls)[fr[t].k]
       IN IF FieldMissing(o, f)
          THEN /\ pc' = [pc EXCEPT ![t] = "af_assign"]
               /\ UNCHANGED fr
          ELSE /\ pc' = [pc EXCEPT ![t] = AfNext(fr[t]).pc]
               /\ fr' = [fr EXCEPT ![t] = AfNext(fr[t]).frame]
    /\ UNCHANGED <<poolvars, arg, ret, cur, closed, raised, objs, futs, cache,
                   res, gres, nsub, nops, served>>

\* add: obj.__dict__['_' + k] = pykka.ThreadingFuture(); added = True
AfAssign(t) ==
    /\ pc[t] = "af_assign"
    /\ LET o == fr[t].list[fr[t].i]
           f == InfoFields(fr[t].lcls)[fr[t].k]
           nx == AfNext([fr[t] EXCEPT !.added = TRUE])
       IN /\ futs' = Append(futs, NewFuture)
          /\ objs' = [objs EXCEPT ![o].d[f] = Len(futs) + 1]
          /\ pc' = [pc EXCEPT ![t] = nx.pc]
          /\ fr' = [fr EXCEPT ![t] = nx.frame]
    /\ UNCHANGED <<poolvars, arg, ret, cur, closed, raised, cache, res, gres,
                   nsub, nops, served>>

\* the literal 50 of load_info's range and slice, scaled down
BatchSize == 2

Min(a, b) == IF a < b THEN a ELSE b

SublistOneMore(list, i) ==
    SubSeq(list, i + 1, Min(i + BatchSize + 1, Len(list)))

\* sublist = list[i:i+50]
Sublist(list, i) == SubSeq(list, i + 1, Min(i + BatchSize, Len(list)))

\* for i in range(0, len(list), 50): ThreadPool.run(job, (list[i:i+50],));
\* subs records the sublists handed over by this call
LiBatch(t) ==
    /\ pc[t] = "li_batch"
    /\ IF fr[t].i >= Len(fr[t].out)
       THEN /\ pc' = [pc EXCEPT ![t] = fr[t].lret]
            /\ fr' = [fr EXCEPT ![t].out = <<>>, ![t].i = 0, ![t].lcls = "",
                                ![t].lret = "", ![t].subs = <<>>,
                                ![t].lack = {}]
            /\ UNCHANGED <<arg, ret, nsub>>
       ELSE LET sub == Sublist(fr[t].out, fr[t].i)
            IN /\ arg' = [arg EXCEPT ![t] =
                            [kind |-> InfoJobKind(fr[t].lcls), obj |-> 0,
                             list |-> sub]]
               /\ nsub' = [o \in 1..Len(nsub) |->
                             IF o \in Range(sub)
                             THEN [nsub[o] EXCEPT !.info = @ + 1]
                             ELSE nsub[o]]
               /\ ret' = [ret EXCEPT ![t] = "li_batch"]
               /\ fr' = [fr EXCEPT ![t].i = @ + BatchSize,
                                   ![t].subs = Append(@, sub)]
               /\ pc' = [pc EXCEPT ![t] = "run_acquire"]
    /\ UNCHANGED <<poolvars, cur, closed, raised, objs, futs, cache, res, gres,
                   nops, served>>

\* wrapper: return self.__dict__[_future_name]
PropRet(t) ==
    /\ pc[t] = "prop_ret"
    /\ res' = [res EXCEPT ![t] = [NoRes EXCEPT !.obj = fr[t].obj,
                                                !.fld = fr[t].fld,
                                                !.fut = objs[fr[t].obj].d[fr[t].fld]]]
    /\ fr' = [fr EXCEPT ![t] = Frame0]
    /\ pc' = [pc EXCEPT ![t] = "idle"]
    /\ UNCHANGED <<poolvars, arg, ret, cur, closed, raised, objs, futs, cache,
                   gres, nsub, nops, served>>

---------------------------------------------------------------------------
(* Entry._set_api_data *)

\* the frame with obj._set_api_data(fields, item) entered, to continue at sret
EnterSetApiData(f0, o, fields, item, src, sret) ==
    [f0 EXCEPT !.sobj = o, !.sflds = fields, !.sk = 1, !.sitem = item,
               !.ssrc = src, !.sfut = 0, !.sval = "", !.sret = sret]

\* the frame and the position after field sk: the next field, or the return
SdNext(f0) ==
    IF f0.sk < Len(f0.sflds)
    THEN [frame |-> [f0 EXCEPT !.sk = @ + 1, !.sfut = 0, !.sval = ""],
          pc |-> "sd_get"]
    ELSE [frame |-> [f0 EXCEPT !.sobj = 0, !.sflds = <<>>, !.sk = 0,
                               !.sitem = "", !.ssrc = "", !.sfut = 0,
                               !.sval = "", !.sret = ""],
          pc |-> f0.sret]

\* future = self.__dict__.get(_k); if not future: ...
SdGet(t) ==
    /\ pc[t] = "sd_get"
    /\ LET f == objs[fr[t].sobj].d[fr[t].sflds[fr[t].sk]]
       IN IF f = 0
          THEN /\ pc' = [pc EXCEPT ![t] = "sd_create"]
               /\ UNCHANGED fr
          ELSE /\ pc' = [pc EXCEPT ![t] = "sd_empty"]
               /\ fr' = [fr EXCEPT ![t].sfut = f]
    /\ UNCHANGED <<poolvars, arg, ret, cur, closed, raised, objs, futs, cache,
                   res, gres, nsub, nops, served>>

\* future = self.__dict__[_k] = pykka.ThreadingFuture()
SdCreate(t) ==
    /\ pc[t] = "sd_create"
    /\ futs' = Append(futs, NewFuture)
    /\ objs' = [objs EXCEPT ![fr[t].sobj].d[fr[t].sflds[fr[t].sk]] = Len(futs) + 1]
    /\ fr' = [fr EXCEPT ![t].sfut = Len(futs) + 1]
    /\ pc' = [pc EXCEPT ![t] = "sd_empty"]
    /\ UNCHANGED <<poolvars, arg, ret, cur, closed, raised, cache, res, gres,
                   nsub, nops, served>>

\* not future._queue.empty()
IsSet(f) == futs[f].set

\* if not future._queue.empty(): continue; otherwise val is computed from the
\* item, which raises KeyError when the item lacks the key
SdEmpty(t) ==
    /\ pc[t] = "sd_empty"
    /\ LET v == ItemValue(fr[t].sflds[fr[t].sk], fr[t].sitem, fr[t].ssrc)
       IN IF IsSet(fr[t].sfut)
          THEN /\ pc' = [pc EXCEPT ![t] = SdNext(fr[t]).pc]
               /\ fr' = [fr EXCEPT ![t] = SdNext(fr[t]).frame]
               /\ UNCHANGED <<cur, raised, res>>
          ELSE IF v = "KeyError"
               THEN Raises(t)
               ELSE /\ pc' = [pc EXCEPT ![t] = "sd_set"]
                    /\ fr' = [fr EXCEPT ![t].sval = v]
                    /\ UNCHANGED <<cur, raised, res>>
    /\ UNCHANGED <<poolvars, arg, ret, closed, objs, futs, cache, gres, nsub,
                   nops, served>>

\* ThreadingFuture.set: self._queue.put(value, block=False) on a queue of
\* size one, which raises Queue.Full when the future holds a value
FutureSet(f, v) ==
    IF futs[f].set
    THEN [futs EXCEPT ![f].sets = @ + 1]
    ELSE [futs EXCEPT ![f] = [set |-> TRUE, val |-> v, sets |-> @.sets + 1]]

\* future.set(val)
SdSet(t) ==
    /\ pc[t] = "sd_set"
    /\ futs' = FutureSet(fr[t].sfut, fr[t].sval)
    /\ IF futs[fr[t].sfut].set
       THEN Raises(t)
       ELSE /\ pc' = [pc EXCEPT ![t] = SdNext(fr[t]).pc]
            /\ fr' = [fr EXCEPT ![t] = SdNext(fr[t]).frame]
            /\ UNCHANGED <<cur, raised, res>>
    /\ UNCHANGED <<poolvars, arg, ret, closed, objs, cache, gres, nsub, nops,
                   served>>

---------------------------------------------------------------------------
(* Entry.search, which runs in its caller's thread *)

\* what the search call may do: return items, raise, return data without
\* 'items'
SearchKinds == {"ok", "raise", "noitems"}

\* the items a search returns: a video and a playlist
SearchItems == << <<"Video", "v1">>, <<"Playlist", "p1">> >>

\* a summary item is whole or lacks 'snippet'
SearchItemKinds == {"ok", "nosnippet"}

SearchFieldsTitleOnly(cls) == <<"title">>

\* the fields create_object sets from a summary item
SearchFields(cls) ==
    IF cls = "Video" THEN <<"title", "channel">>
    ELSE <<"title", "channel", "thumbnails">>

\* data = API.search(q) in its try; map(create_object, data['items']) starts
StartSearch(c) ==
    /\ pc[c] = "idle"
    /\ nops < MaxOps
    /\ nops' = nops + 1
    /\ \E r \in SearchKinds :
         IF r = "ok"
         THEN /\ fr' = [fr EXCEPT ![c].items = SearchItems, ![c].ii = 1,
                                  ![c].my = <<>>]
              /\ pc' = [pc EXCEPT ![c] = "se_item"]
              /\ res' = [res EXCEPT ![c] = NoRes]
         ELSE SearchExcept(c)
    /\ UNCHANGED <<poolvars, arg, ret, cur, closed, raised, objs, futs, cache,
                   gres, nsub, served>>

\* create_object(item): obj = Video.get(...) or Playlist.get(...) is called;
\* after the last item search returns the list
SeItem(t) ==
    /\ pc[t] = "se_item"
    /\ IF fr[t].ii <= Len(fr[t].items)
       THEN /\ fr' = CallGet(t, fr[t].items[fr[t].ii][1],
                             fr[t].items[fr[t].ii][2], "se_set")
            /\ gres' = [gres EXCEPT ![t] = NoGet]
            /\ pc' = [pc EXCEPT ![t] = "get_lookup"]
            /\ UNCHANGED <<res, nsub>>
       ELSE /\ res' = [res EXCEPT ![t] =
                        [NoRes EXCEPT !.fld = "search", !.out = fr[t].my]]
            /\ nsub' = [o \in 1..Len(nsub) |->
                          IF o \in Range(fr[t].my)
                          THEN [nsub[o] EXCEPT !.found = TRUE]
                          ELSE nsub[o]]
            /\ fr' = [fr EXCEPT ![t] = Frame0]
            /\ pc' = [pc EXCEPT ![t] = "idle"]
            /\ UNCHANGED gres
    /\ UNCHANGED <<poolvars, arg, ret, cur, closed, raised, objs, futs, cache,
                   nops, served>>

\* obj._set_api_data(['title', 'channel'], item) is entered
SeSet(t) ==
    /\ pc[t] = "se_set"
    /\ \E item \in SearchItemKinds :
         fr' = [fr EXCEPT ![t] =
                  EnterSetApiData(@, fr[t].obj, SearchFields(fr[t].cls), item,
                                  "search", "se_append")]
    /\ pc' = [pc EXCEPT ![t] = "sd_get"]
    /\ UNCHANGED <<poolvars, arg, ret, cur, closed, raised, objs, futs, cache,
                   res, gres, nsub, nops, served>>

\* return obj: map goes on with the next item
SeAppend(t) ==
    /\ pc[t] = "se_append"
    /\ fr' = [fr EXCEPT ![t].my = Append(@, fr[t].obj), ![t].ii = @ + 1]
    /\ pc' = [pc EXCEPT ![t] = "se_item"]
    /\ UNCHANGED <<poolvars, arg, ret, cur, closed, raised, objs, futs, cache,
                   res, gres, nsub, nops, served>>

---------------------------------------------------------------------------
(* Video.load_info.job, Playlist.load_info.job *)

\* what list_videos / list_playlists may hold for one id: a whole item, no
\* item, an item without 'snippet', an item without 'contentDetails'
ItemKinds == {"ok", "absent", "nosnippet", "nodetails"}

\* dict.get(video.id): None when the call raised (dict = {}), otherwise
\* whatever the response holds for the id
DictGet(failed) == IF failed THEN {"absent"} ELSE ItemKinds

\* data = API.list_videos([x.id for x in sublist]); dict = {...} or, in the
\* except clause, dict = {}; then the first
\* video._set_api_data(fields, dict.get(video.id)) is entered
ExecInfo(w) ==
    /\ pc[w] = "exec"
    /\ cur[w].kind \in {"video_info", "playlist_info"}
    /\ \E failed \in BOOLEAN : \E item \in DictGet(failed) :
         fr' = [fr EXCEPT ![w] =
                  EnterSetApiData([@ EXCEPT !.failed = failed, !.vi = 1],
                                  cur[w].list[1],
                                  IF cur[w].kind = "video_info" THEN VideoFields
                                  ELSE PlaylistFields,
                                  item, "batch", "info_next")]
    /\ pc' = [pc EXCEPT ![w] = "sd_get"]
    /\ UNCHANGED <<poolvars, arg, ret, cur, closed, raised, objs, futs, cache,
                   res, gres, nsub, nops, served>>

\* for video in sublist: the next video, or the job returns
InfoNext(w) ==
    /\ pc[w] = "info_next"
    /\ IF fr[w].vi < Len(cur[w].list)
       THEN /\ \E item \in DictGet(fr[w].failed) :
                 fr' = [fr EXCEPT ![w] =
                     EnterSetApiData([@ EXCEPT !.vi = @ + 1],
                                     cur[w].list[fr[w].vi + 1],
                                     IF cur[w].kind = "video_info"
                                     THEN VideoFields ELSE PlaylistFields,
                                     item, "batch", "info_next")]
            /\ pc' = [pc EXCEPT ![w] = "sd_get"]
            /\ UNCHANGED <<cur, raised>>
       ELSE JobReturns(w)
    /\ UNCHANGED <<poolvars, arg, ret, closed, objs, futs, cache, res, gres,
                   nsub, nops, served>>

---------------------------------------------------------------------------
(* Playlist.videos.job *)

\* all_videos = []; page = ''
ExecVideos(w) ==
    /\ pc[w] = "exec"
    /\ cur[w].kind = "videos"
    /\ fr' = [fr EXCEPT ![w].all = <<>>, ![w].page = 1]
    /\ pc' = [pc EXCEPT ![w] = "pl_loop"]
    /\ UNCHANGED <<poolvars, arg, ret, cur, closed, raised, objs, futs, cache,
                   res, gres, nsub, nops, served>>

\* what list_playlistitems may do: return the page, raise, return data
\* without 'items', return items without a title
PageKinds == {"ok", "raise", "noitems", "notitle"}

\* a response of list_playlistitems: its kind, data['items'], the page its
\* nextPageToken names (0: no token), and what it takes from the budget of
\* pages the remote serves
Response(k, items, next, cost) ==
    [kind |-> k, items |-> items, next |-> next, cost |-> cost]
Raise == Response("raise", <<>>, 0, 0)

\* the remote that holds the playlist "p1" as RemotePages: what it may
\* answer when asked for page p
PagedRemote ==
    [p \in 1..Len(RemotePages) |->
        {Response(k, RemotePages[p],
                  IF p < Len(RemotePages) THEN p + 1 ELSE 0, 1) :
            k \in PageKinds \ {"raise"}}]

MorePagesWhileToken(f0) == f0.page # 0

\* while page is not None and len(all_videos) < self.max_videos
MorePages(f0) == f0.page # 0 /\ Len(f0.all) < max_videos

\* max_results = min(self.max_videos - len(all_videos), 50)
MaxResults(f0) == Min(max_videos - Len(f0.all), BatchSize)

\* the while test, the call of list_playlistitems in its try, and
\* page = data.get('nextPageToken') or None; remote[p] holds what the remote
\* may answer for page p, of which it serves quota at most
PlLoop(w, quota, remote) ==
    /\ pc[w] = "pl_loop"
    /\ IF MorePages(fr[w])
       THEN \E r \in remote[fr[w].page] \cup {Raise} :
              CASE r.kind = "raise" ->
                     /\ fr' = [fr EXCEPT ![w].data = "raise",
                                         ![w].maxres = MaxResults(fr[w])]
                     /\ pc' = [pc EXCEPT ![w] = "pl_set"]
                     /\ UNCHANGED <<cur, raised, served>>
                [] r.kind = "noitems" ->
                     /\ served + r.cost <= quota
                     /\ served' = served + r.cost
                     /\ JobRaises(w)
                [] OTHER ->
                     /\ served + r.cost <= quota
                     /\ served' = served + r.cost
                     /\ fr' = [fr EXCEPT
                                 ![w].data = r.kind,
                                 ![w].maxres = MaxResults(fr[w]),
                                 ![w].items = r.items,
                                 ![w].page = r.next,
                                 ![w].ii = 1,
                                 ![w].my = <<>>]
                     /\ pc' = [pc EXCEPT ![w] = "pl_item"]
                     /\ UNCHANGED <<cur, raised>>
       ELSE /\ pc' = [pc EXCEPT ![w] = "pl_set"]
            /\ UNCHANGED <<fr, cur, raised, served>>
    /\ UNCHANGED <<poolvars, arg, ret, closed, objs, futs, cache, res, gres,
                   nsub, nops>>

PlItemWithoutLoadInfo(w) ==
    /\ pc[w] = "pl_item"
    /\ IF fr[w].ii <= Len(fr[w].items)
       THEN /\ fr' = CallGet(w, "Video", fr[w].items[fr[w].ii], "pl_title")
            /\ gres' = [gres EXCEPT ![w] = NoGet]
            /\ pc' = [pc EXCEPT ![w] = "get_lookup"]
       ELSE /\ fr' = [fr EXCEPT ![w].all = @ \o fr[w].my, ![w].items = <<>>,
                                ![w].ii = 0, ![w].my = <<>>, ![w].obj = 0]
            /\ pc' = [pc EXCEPT ![w] = "pl_loop"]
            /\ UNCHANGED gres
    /\ UNCHANGED <<poolvars, arg, ret, cur, closed, raised, objs, futs, cache,
                   res, nsub, nops, served>>

\* for item in data['items']: video = Video.get(...) is called; after the
\* last item all_videos += myvideos and Video.load_info(myvideos) is entered
PlItem(w) ==
    /\ pc[w] = "pl_item"
    /\ IF fr[w].ii <= Len(fr[w].items)
       THEN /\ fr' = CallGet(w, "Video", fr[w].items[fr[w].ii], "pl_title")
            /\ gres' = [gres EXCEPT ![w] = NoGet]
            /\ pc' = [pc EXCEPT ![w] = "get_lookup"]
       ELSE LET nx == AfStart(EnterLoadInfo(
                         [fr[w] EXCEPT !.all = @ \o fr[w].my, !.items = <<>>,
                                       !.ii = 0, !.my = <<>>, !.obj = 0],
                         "Video", fr[w].my, "pl_loop"))
            IN /\ fr' = [fr EXCEPT ![w] = nx.frame]
               /\ pc' = [pc EXCEPT ![w] = nx.pc]
               /\ UNCHANGED gres
    /\ UNCHANGED <<poolvars, arg, ret, cur, closed, raised, objs, futs, cache,
                   res, nsub, nops, served>>

\* video._set_api_data(['title'], item) is entered
PlTitle(w) ==
    /\ pc[w] = "pl_title"
    /\ fr' = [fr EXCEPT ![w] =
                EnterSetApiData(@, fr[w].obj, <<"title">>,
                                IF fr[w].data = "notitle" THEN "notitle" ELSE "ok",
                                "page", "pl_append")]
    /\ pc' = [pc EXCEPT ![w] = "sd_get"]
    /\ UNCHANGED <<poolvars, arg, ret, cur, closed, raised, objs, futs, cache,
                   res, gres, nsub, nops, served>>

\* myvideos.append(video)
PlAppend(w) ==
    /\ pc[w] = "pl_append"
    /\ fr' = [fr EXCEPT ![w].my = Append(@, fr[w].obj), ![w].ii = @ + 1]
    /\ pc' = [pc EXCEPT ![w] = "pl_item"]
    /\ UNCHANGED <<poolvars, arg, ret, cur, closed, raised, objs, futs, cache,
                   res, gres, nsub, nops, served>>

\* self._videos.set(all_videos)
PlSet(w) ==
    /\ pc[w] = "pl_set"
    /\ LET f == objs[cur[w].obj].d["videos"]
       IN /\ futs' = FutureSet(f, fr[w].all)
          /\ IF futs[f].set THEN JobRaises(w) ELSE JobReturns(w)
    /\ UNCHANGED <<poolvars, arg, ret, closed, objs, cache, res, gres, nsub,
                   nops, served>>

---------------------------------------------------------------------------
(* Video.audio_url.job *)

\* what extract_info may do: return info, raise, return info without 'url'
AudioKinds == {"ok", "raise", "nourl"}

\* info = YoutubeDL(...).extract_info(...), then self._audio_url.set(None)
\* in the except clause or self._audio_url.set(info['url'])
ExecAudio(w) ==
    /\ pc[w] = "exec"
    /\ cur[w].kind = "audio_url"
    /\ LET f == objs[cur[w].obj].d["audio_url"]
       IN \E r \in AudioKinds :
            IF r = "nourl"
            THEN JobRaises(w) /\ UNCHANGED futs
            ELSE /\ futs' = FutureSet(f, IF r = "raise" THEN "None" ELSE "url")
                 /\ IF futs[f].set THEN JobRaises(w) ELSE JobReturns(w)
    /\ UNCHANGED <<poolvars, arg, ret, closed, objs, cache, res, gres, nsub,
                   nops, served>>

PoolInit ==
    /\ jobs = <<>>
    /\ threads_active = 0
    /\ lock = "free"
    /\ pc = [t \in Threads |-> IF t \in Consumers THEN "idle" ELSE "dead"]
    /\ arg = [t \in Threads |-> NoJob]
    /\ ret = [t \in Threads |-> "idle"]
    /\ cur = [t \in Threads |-> NoJob]
    /\ closed = FALSE
    /\ raised = FALSE
    /\ EntityInit

LockStep(t) == RunAcquire(t) \/ WAcquire(t)
RunStep(t) == RunAppend(t) \/ RunSpawn(t) \/ RunInc(t) \/ RunRelease(t)
WorkerStep(w) == WFetch(w) \/ WRelease(w) \/ WExecOpaque(w) \/ WJobEnd(w)

PoolStep(maxjobs) ==
    \/ \E c \in PoolCallers, j \in 1..maxjobs, b \in Behaviours, k \in 0..maxjobs :
          CallRun(c, j, b, k)
    \/ Close
    \/ \E t \in Threads : RunAcquire(t)
    \/ \E t \in Threads : RunAppend(t)
    \/ \E t \in Threads : RunSpawn(t)
    \/ \E t \in Threads : RunInc(t)
    \/ \E t \in Threads : RunRelease(t)
    \/ \E w \in WorkerIds : WAcquire(w)
    \/ \E w \in WorkerIds : WFetch(w)
    \/ \E w \in WorkerIds : WRelease(w)
    \/ \E w \in WorkerIds : WExecOpaque(w)
    \/ \E w \in WorkerIds : WJobEnd(w)

PoolNext == PoolStep(MaxJobs)
PoolLiveNext == PoolStep(MaxLiveJobs)

\* Threads are operating-system threads: one that can take a step
\* eventually takes it (weak fairness; threading.Lock promises no more to a
\* thread waiting for it).
PoolFairness ==
    \A t \in PoolCallers \cup WorkerIds :
        WF_vars(LockStep(t) \/ RunStep(t) \/ WorkerStep(t))

\* A lock that serves every thread that waits for it: a thread that finds the
\* lock free again and again eventually gets it.
FairLock == \A t \in PoolCallers \cup WorkerIds : SF_vars(LockStep(t))

\* the pool with any callers and any jobs
PoolSpec == PoolInit /\ [][PoolNext]_vars

\* the same with fairly scheduled threads
PoolLiveSpec == PoolInit /\ [][PoolLiveNext]_vars /\ PoolFairness

\* the same with fairly scheduled threads and a lock that serves its waiters
PoolFairLockSpec ==
    PoolInit /\ [][PoolLiveNext]_vars /\ PoolFairness /\ FairLock

---------------------------------------------------------------------------
(* The program, as three specifications.  Every step of every thread that  *)
(* reads or writes shared state is an action of its own; each              *)
(* specification takes the threads of one scenario:                        *)
(*   Spec        one caller (Mopidy's backend actor serves its requests    *)
(*               one at a time) and the workers that run its jobs;         *)
(*   AccessSpec  two callers that access entities at once, up to the       *)
(*               hand-over of their jobs to the pool;                      *)
(*   RaceSpec    two callers that ask for a playlist's videos at once, and *)
(*               the workers that run the enumerations.                    *)

\* the properties the one caller evaluates, besides searching
Ops ==
    {<<"Video", "v1", "length">>, <<"Video", "v1", "title">>,
     <<"Video", "v1", "audio_url">>, <<"Playlist", "p1", "video_count">>}

\* the properties two callers evaluate at once
AccessOps ==
    {<<"Video", "v1", "length">>, <<"Video", "v1", "title">>,
     <<"Video", "v1", "audio_url">>, <<"Playlist", "p1", "videos">>,
     <<"Playlist", "p1", "video_count">>}

RaceOps == {<<"Playlist", "p1", "videos">>}

Init == PoolInit

\* what a caller does between its request and the hand-over of a job
AccessStep(t) ==
    \/ GetLookup(t)
    \/ GetPut(t)
    \/ PropCheck(t)
    \/ OwnAssign(t)
    \/ AfCheck(t)
    \/ AfAssign(t)
    \/ LiBatch(t)
    \/ RunLocked(t)
    \/ PropRet(t)

\* Entry._set_api_data, in a job or in search
SetStep(t) ==
    \/ SdGet(t)
    \/ SdCreate(t)
    \/ SdEmpty(t)
    \/ SdSet(t)

Next ==
    \/ \E c \in PoolCallers, op \in Ops : StartOp(c, op)
    \/ \E c \in PoolCallers : StartSearch(c)
    \/ \E t \in Threads : AccessStep(t)
    \/ \E t \in Threads : SetStep(t)
    \/ \E t \in Threads : SeItem(t)
    \/ \E t \in Threads : SeSet(t)
    \/ \E t \in Threads : SeAppend(t)
    \/ \E w \in WorkerIds : WorkerLocked(w)
    \/ \E w \in WorkerIds : ExecInfo(w)
    \/ \E w \in WorkerIds : InfoNext(w)
    \/ \E w \in WorkerIds : ExecAudio(w)

AccessNext ==
    \/ \E c \in Consumers, op \in AccessOps : StartOp(c, op)
    \/ \E t \in Consumers : AccessStep(t)

RaceNext ==
    \/ \E c \in Consumers, op \in RaceOps : StartOp(c, op)
    \/ \E t \in Threads : AccessStep(t)
    \/ \E t \in Threads : SetStep(t)
    \/ \E w \in WorkerIds : WorkerLocked(w)
    \/ \E w \in WorkerIds : ExecVideos(w)
    \/ \E w \in WorkerIds : PlLoop(w, RaceMaxPages, PagedRemote)
    \/ \E w \in WorkerIds : PlItem(w)
    \/ \E w \in WorkerIds : PlTitle(w)
    \/ \E w \in WorkerIds : PlAppend(w)
    \/ \E w \in WorkerIds : PlSet(w)
    \/ \E w \in WorkerIds : ExecInfo(w)
    \/ \E w \in WorkerIds : InfoNext(w)

\* the pages a remote may answer with when it is free to answer anything:
\* no item, one item, more items than a request ever asks for
EnumPageItems == {<<>>, <<"v1">>, <<"v1", "v2", "v3">>}

\* the same without the long page
ShortPageItems == {<<>>, <<"v1">>}

\* a remote that answers any of the given pages, with or without a token
\* for a next one, whatever it is asked
AnswersWith(pageitems) ==
    [p \in {1} |->
        {Response(k, items, next, 0) :
            k \in PageKinds \ {"raise"}, items \in pageitems,
            next \in {0, 1}}]
AnyRemote == AnswersWith(EnumPageItems)
ShortRemote == AnswersWith(ShortPageItems)

EnumNext ==
    \/ \E c \in PoolCallers, op \in RaceOps : StartOp(c, op)
    \/ \E t \in Threads : AccessStep(t)
    \/ \E t \in Threads : SetStep(t)
    \/ \E w \in WorkerIds : WorkerLocked(w)
    \/ \E w \in WorkerIds : ExecVideos(w)
    \/ \E w \in WorkerIds : PlLoop(w, 0, AnyRemote)
    \/ \E w \in WorkerIds : PlItem(w)
    \/ \E w \in WorkerIds : PlTitle(w)
    \/ \E w \in WorkerIds : PlAppend(w)
    \/ \E w \in WorkerIds : PlSet(w)
    \/ \E w \in WorkerIds : ExecInfo(w)
    \/ \E w \in WorkerIds : InfoNext(w)

\* what thread t may do once it has been started, where a playlist is
\* enumerated against the remote of short pages
EnumStep(t) ==
    \/ AccessStep(t)
    \/ SetStep(t)
    \/ WorkerLocked(t)
    \/ ExecVideos(t)
    \/ PlLoop(t, 0, ShortRemote)
    \/ PlItem(t)
    \/ PlTitle(t)
    \/ PlAppend(t)
    \/ PlSet(t)
    \/ ExecInfo(t)
    \/ InfoNext(t)

EnumLiveNext ==
    \/ \E c \in PoolCallers, op \in RaceOps : StartOp(c, op)
    \/ \E t \in Threads : EnumStep(t)

\* threads are operating-system threads: one that can take a step
\* eventually takes it, and every remote call returns or raises
EnumFairness == \A t \in Threads : WF_vars(EnumStep(t))

Spec == Init /\ [][Next]_vars
EnumSpec == Init /\ [][EnumNext]_vars
EnumLiveSpec == Init /\ [][EnumLiveNext]_vars /\ EnumFairness
AccessSpec == Init /\ [][AccessNext]_vars
RaceSpec == Init /\ [][RaceNext]_vars

\* instances the callers of CacheSpec may create
MaxInstances == 6

\* a caller evaluates cls.get(id) and keeps what it returns; the calls come
\* one after another (AccessSpec has the overlapping ones)
StartGet(c, key) ==
    /\ \A d \in Consumers : pc[d] = "idle"
    /\ Len(objs) < MaxInstances
    /\ fr' = CallGet(c, key[1], key[2], "idle")
    /\ gres' = [gres EXCEPT ![c] = NoGet]
    /\ pc' = [pc EXCEPT ![c] = "get_lookup"]
    /\ UNCHANGED <<poolvars, arg, ret, cur, closed, raised, objs, futs, cache,
                   res, nsub, nops, served>>

\* gets of more ids than the cache has room for
CacheNext ==
    \/ \E c \in Consumers, key \in Keys : StartGet(c, key)
    \/ \E c \in Consumers : GetLookup(c)
    \/ \E c \in Consumers : GetPut(c)

CacheSpec == Init /\ [][CacheNext]_vars

---------------------------------------------------------------------------
(* Claims about the entities' futures, checked under Spec, AccessSpec and  *)
(* RaceSpec                                                                *)

\* every caller is back from its call, the job queue is empty and every
\* worker thread has ended: nothing is left that could set a future
Quiescent ==
    /\ \A c \in Consumers : pc[c] = "idle"
    /\ jobs = <<>>
    /\ \A w \in WorkerIds : pc[w] = "dead"

\* the fields of entity o that a submitted job is to set
JobFields(o) ==
    (IF nsub[o].info > 0 THEN Range(InfoFields(objs[o].cls)) ELSE {})
      \cup (IF nsub[o].videos > 0 THEN {"videos"} ELSE {})
      \cup (IF nsub[o].audio_url > 0 THEN {"audio_url"} ELSE {})

\* the futures the entities hold for those fields
JobFutures ==
    {x \in 1..Len(futs) :
        \E o \in 1..Len(objs) : \E f \in JobFields(o) : objs[o].d[f] = x}

\* C1: every field future for which a population, enumeration or audio-url
\* job was submitted is eventually set, whatever the remote returns or
\* raises; so once every job has ended and every worker is gone, no entity
\* holds such a future that is still unset.
C1_NoFutureLeftUnset ==
    Quiescent => \A x \in JobFutures : futs[x].set

\* C2: two threads that access the same field of the same entity through
\* load_info obtain the same future, and at most one population job is ever
\* submitted for an entity.
C2_OneFutureOneJob ==
    /\ \A c, d \in Consumers :
          (/\ res[c].obj # 0
           /\ res[c].obj = res[d].obj
           /\ res[c].fld = res[d].fld
           /\ res[c].fld \in Range(InfoFields(objs[res[c].obj].cls)))
             => res[c].fut = res[d].fut
    /\ \A o \in 1..Len(nsub) : nsub[o].info <= 1

\* C3: set is called at most once on every future (a second call finds the
\* future's queue full).
C3_FutureSetAtMostOnce ==
    \A f \in 1..Len(futs) : futs[f].sets <= 1

\* C4: two calls of get for the same class and id that overlap in time
\* return the same instance.
C4_OverlappingGetsSameInstance ==
    \A t, u \in Consumers :
        (/\ gres[t].obj # 0
         /\ gres[u].obj # 0
         /\ gres[t].cls = gres[u].cls
         /\ gres[t].id = gres[u].id
         /\ u \in gres[t].over)
           => gres[t].obj = gres[u].obj

\* C9: when the batch call of a population job raised, then at the moment the
\* job ends every field future of every entity of its batch is set.
C9_FailedBatchLeavesNoFutureUnset ==
    [][\A w \in WorkerIds :
          (/\ cur[w].kind \in {"video_info", "playlist_info"}
           /\ fr[w].failed
           /\ cur'[w] = NoJob)
             => \A i \in 1..Len(cur[w].list) :
                  \A f \in Range(InfoFields(objs[cur[w].list[i]].cls)) :
                     LET x == objs'[cur[w].list[i]].d[f]
                     IN x # 0 /\ futs'[x].set]_vars

\* C10: when list_playlistitems raised on page k of an enumeration, then at
\* the moment the enumeration job ends the playlist's videos future is set
\* and holds exactly the videos of the pages before k that the job gathered.
C10_RaisedPageLeavesPartialList ==
    [][\A w \in WorkerIds :
          (/\ pc[w] = "pl_set"
           /\ fr[w].data = "raise"
           /\ cur'[w] = NoJob)
             => LET x == objs'[cur[w].obj].d["videos"]
                IN futs'[x].set /\ futs'[x].val = fr[w].all]_vars

\* the futures that are some playlist's _videos
VideosFutures ==
    {x \in 1..Len(futs) :
        \E o \in 1..Len(objs) : objs[o].d["videos"] = x}

\* C11: the list a playlist's videos future is set to never has more than
\* max_videos elements, whatever pages the remote answers with.
C11_VideosWithinMaxVideos ==
    \A x \in VideosFutures : futs[x].set => Len(futs[x].val) <= max_videos

\* thread t's load_info has handed over its last batch and is to return
LoadInfoDone(t) == pc[t] = "li_batch" /\ fr[t].i >= Len(fr[t].out)

\* C12: a call of load_info hands ceil(n / BatchSize) jobs to the pool, n
\* being the length of the filtered list; the b-th job's batch is the b-th
\* slice of BatchSize entities of the filtered list, in its order (the last
\* slice may be shorter), so that every filtered entity is in one batch.
C12_BatchesPartitionFilteredList ==
    \A t \in Threads :
        LoadInfoDone(t) =>
           LET out == fr[t].out
               subs == fr[t].subs
           IN /\ Len(subs) = (Len(out) + BatchSize - 1) \div BatchSize
              /\ \A b \in 1..Len(subs) :
                    /\ subs[b] = SubSeq(out, (b - 1) * BatchSize + 1,
                                        Min(b * BatchSize, Len(out)))
                    /\ Len(subs[b]) \in 1..BatchSize

\* a load_info of three entities has handed over a batch of two and a batch
\* of one
C12_Witness ==
    \E t \in Threads :
        /\ LoadInfoDone(t)
        /\ Len(fr[t].out) = BatchSize + 1
        /\ Len(fr[t].subs) = 2
        /\ Len(fr[t].subs[1]) = BatchSize
        /\ Len(fr[t].subs[2]) = 1

\* the instances of Video with the given id
VideosOf(id) ==
    {o \in 1..Len(objs) : objs[o].cls = "Video" /\ objs[o].id = id}

\* C13: for each video id at most one audio_url job (the job that calls the
\* extractor) is ever handed to the pool: no instance gets a second one, and
\* no two instances of one id get one each.
C13_AudioJobOncePerVideo ==
    \A k \in Keys :
        /\ \A o \in VideosOf(k[2]) : nsub[o].audio_url <= 1
        /\ \A o, p \in VideosOf(k[2]) :
              (nsub[o].audio_url > 0 /\ nsub[p].audio_url > 0) => o = p

\* thread c is inside Entry.search, mapping the items to entities
InSearch(c) == pc[c] # "idle" /\ fr[c].items # <<>>

\* C14: Entry.search never raises to its caller: no caller is ever left with
\* an exception, and a search that is under way ends only by returning to
\* its caller, with None or with the list of all the items' entities.
C14_SearchNeverRaises ==
    /\ [](\A c \in Consumers : pc[c] # "raised")
    /\ [][\A c \in Consumers :
            (InSearch(c) /\ ~InSearch(c)')
               => /\ pc'[c] = "idle"
                  /\ res'[c].fld = "search"
                  /\ res'[c].none \/ Len(res'[c].out) = Len(SearchItems)]_vars

\* a search has returned None after create_object failed on an item: the
\* title future it created for the item's entity is left unset
C14_Witness ==
    \E c \in Consumers : \E o \in 1..Len(objs) :
        /\ pc[c] = "idle"
        /\ res[c] = SearchNone
        /\ nsub[o].info = 0
        /\ objs[o].d["title"] # 0
        /\ ~futs[objs[o].d["title"]].set

\* worker w runs a population job and is about to compute, for a future that
\* is not set, the value of a field that the entity's item lacks
LacksSubField(w) ==
    /\ cur[w].kind \in {"video_info", "playlist_info"}
    /\ pc[w] = "sd_empty"
    /\ ~IsSet(fr[w].sfut)
    /\ ItemValue(fr[w].sflds[fr[w].sk], fr[w].sitem, fr[w].ssrc) = "KeyError"

\* C16: when the item of an entity lacks the sub-field a field is read
\* from, the population job goes on to set that field's future to the
\* absent value (and so reaches the other fields and entities of the batch).
C16_MissingSubFieldSetsNone ==
    [][\A w \in WorkerIds :
          (LacksSubField(w) /\ pc'[w] # pc[w])
             => /\ cur'[w] = cur[w]
                /\ pc'[w] = "sd_set"
                /\ fr'[w].sval = "None"]_vars

\* worker w runs a playlist's enumeration job
Enumerating(w) == cur[w].kind = "videos"

\* worker w's enumeration has just been answered a page that carries a
\* continuation token and no item
EmptyPageWithToken(w) ==
    /\ Enumerating(w)
    /\ pc[w] = "pl_item"
    /\ fr[w].ii = 1
    /\ fr[w].items = <<>>
    /\ fr[w].page # 0

\* a page is requested only with a token in hand and fewer than max_videos
\* videos gathered, and for min(max_videos - gathered, BatchSize) results
RequestsWithinLimits ==
    [][\A w \in WorkerIds :
          (pc[w] = "pl_loop" /\ pc'[w] \in {"pl_item", "pl_set"}
              /\ fr'[w].data # fr[w].data)
             => /\ fr[w].page # 0
                /\ Len(fr[w].all) < max_videos
                /\ fr'[w].maxres =
                      Min(max_videos - Len(fr[w].all), BatchSize)]_vars

\* C17 as stated: requests stay within the limits and every enumeration job
\* ends, whatever the remote answers.
C17_EnumerationTerminates ==
    /\ RequestsWithinLimits
    /\ \A w \in WorkerIds : Enumerating(w) ~> ~Enumerating(w)

\* C17, amended: requests stay within the limits and every enumeration job
\* ends unless the remote goes on to answer pages that carry a continuation
\* token and no item.
C17_TerminatesUnlessEmptyPages ==
    /\ RequestsWithinLimits
    /\ \A w \in WorkerIds :
          Enumerating(w) ~> (~Enumerating(w) \/ EmptyPageWithToken(w))

\* an enumeration has ended because the videos gathered reached max_videos,
\* after more than one page
C17_Witness ==
    /\ \A w \in WorkerIds : ~Enumerating(w)
    /\ \E x \in VideosFutures :
          /\ futs[x].set
          /\ Len(futs[x].val) = max_videos
          /\ served = 0

\* thread t's load_info has filtered its list and not yet handed over a batch
Filtered(t) == pc[t] = "li_batch" /\ fr[t].i = 0

SummaryFields(cls) ==
    IF cls = "Video" THEN {"title", "channel"}
    ELSE {"title", "channel", "thumbnails"}

\* C19: every entity a search has returned in its list has its title and
\* channel futures (a playlist also its thumbnails future) set; and an
\* access to one of these fields of such an entity finds the future and
\* returns it without handing a job to the pool.
C19_SearchResultsNeedNoJob ==
    /\ [](\A o \in 1..Len(objs) :
            nsub[o].found =>
               \A f \in SummaryFields(objs[o].cls) :
                   objs[o].d[f] # 0 /\ futs[objs[o].d[f]].set)
    /\ [][\A c \in Consumers :
            (/\ pc[c] = "prop_check"
             /\ pc'[c] # "prop_check"
             /\ nsub[fr[c].obj].found
             /\ fr[c].fld \in SummaryFields(objs[fr[c].obj].cls))
               => pc'[c] = "prop_ret" /\ nsub' = nsub]_vars

\* a caller has accessed the title of a video that a search returned, and
\* got the future the search set, with no population job for the video
C19_Witness ==
    \E c \in Consumers :
        /\ pc[c] = "idle"
        /\ res[c].fld = "title"
        /\ res[c].obj # 0
        /\ nsub[res[c].obj].found
        /\ nsub[res[c].obj].info = 0
        /\ futs[res[c].fut].val = "search"

\* video v has its title future set, its length and channel futures present
\* and a population job handed to the pool
Prepared(v) ==
    /\ objs[v].d["title"] # 0
    /\ futs[objs[v].d["title"]].set
    /\ objs[v].d["length"] # 0
    /\ objs[v].d["channel"] # 0
    /\ nsub[v].info > 0

\* C20: when the enumeration job requests a page, the videos of the pages
\* before it have their title set and their population batch handed to the
\* pool; and every video in the list a videos future is set to has a set
\* title future and its length and channel futures present.
C20_PagesPreparedInOrder ==
    /\ [](\A x \in VideosFutures :
            futs[x].set => \A i \in 1..Len(futs[x].val) : Prepared(futs[x].val[i]))
    /\ [][\A w \in WorkerIds :
            (pc[w] = "pl_loop" /\ pc'[w] \in {"pl_item", "pl_set"})
               => \A i \in 1..Len(fr[w].all) : Prepared(fr[w].all[i])]_vars

\* a videos future is set to a list of two pages' videos
C20_Witness ==
    \E x \in VideosFutures :
        /\ futs[x].set
        /\ Len(futs[x].val) = 2

---------------------------------------------------------------------------
(* Claims about ThreadPool, checked under PoolSpec and PoolLiveSpec *)

PoolIdle ==
    /\ threads_active = 0
    /\ jobs = <<>>
    /\ \A w \in WorkerIds : pc[w] = "dead"

\* workers that are executing a job or are about to fetch one
Serving(w) == pc[w] \notin {"dead", "release_exit"}

\* C5: in every reachable state threads_active, the number of worker threads
\* that exist and the number of workers executing or about to fetch a job
\* are each at most threads_max.
C5_ActiveWorkersBounded ==
    /\ threads_active <= threads_max
    /\ Cardinality({w \in WorkerIds : Live(w)}) <= threads_max
    /\ Cardinality({w \in WorkerIds : Serving(w)}) <= threads_max

\* the pool is at its cap: threads_max workers serve and no further one exists
C5_Witness ==
    /\ threads_active = threads_max
    /\ Cardinality({w \in WorkerIds : pc[w] = "exec"}) = threads_max
    /\ Len(jobs) > 0

\* C6 as stated: with fairly scheduled workers (even with a lock that serves
\* every waiting thread) and jobs that all terminate, every job in the queue
\* is eventually taken out of it by a worker, whatever the callers go on
\* doing.
C6_EveryJobEventuallyTaken ==
    FairLock => \A j \in LiveJobIds : Queued(j) ~> ~Queued(j)

\* C6 amended: once the callers have stopped submitting, every job in the
\* queue is eventually taken out of it and executed to its end, so that the
\* queue is empty and no job is left running.
C6_TakenOnceSubmissionsStop ==
    /\ \A j \in LiveJobIds : (closed /\ Queued(j)) ~> (~Queued(j) /\ ~Running(j))
    /\ closed ~> (jobs = <<>> /\ \A w \in WorkerIds : cur[w] = NoJob)

\* a job sits in the queue, submitted while the pool was at its cap and every
\* worker was about to look at the queue and decide whether to exit
C6_Witness ==
    /\ closed
    /\ Len(jobs) > 0
    /\ threads_active = threads_max
    /\ \E t \in Threads : pc[t] = "run_release"
    /\ \A w \in WorkerIds : Live(w) => pc[w] = "acquire"

\* C7: after the callers have stopped submitting, the pool eventually is and
\* stays idle (threads_active = 0, empty queue, every worker thread gone), and
\* a worker decides to exit only while it holds the lock and the queue is
\* empty.
C7_PoolShrinksToZero ==
    /\ closed ~> [](PoolIdle)
    /\ [][\A w \in WorkerIds :
            (pc[w] = "fetch" /\ pc'[w] = "release_exit")
                => (lock = w /\ Len(jobs) = 0)]_vars

\* submissions have stopped, jobs were run, and the last worker is leaving
C7_Witness ==
    /\ closed
    /\ raised
    /\ threads_active = 0
    /\ \E w \in WorkerIds : pc[w] = "release_exit"

RaiseStep(w) ==
    /\ pc[w] = "exec"
    /\ cur[w].kind = "f"
    /\ cur[w].beh = "raise"
    /\ pc'[w] # pc[w]

\* C8: the step in which a job raises leaves threads_active and the queue as
\* they are and puts the worker back at the top of its loop, and the jobs
\* that are in the queue after a job has raised are still all taken and run
\* once the callers have stopped submitting.
C8_RaisingJobKeepsWorker ==
    /\ [][\A w \in WorkerIds :
            RaiseStep(w) => /\ threads_active' = threads_active
                            /\ jobs' = jobs
                            /\ pc'[w] = "acquire"]_vars
    /\ (closed /\ raised) ~> (jobs = <<>>)

\* a job has raised, jobs remain in the queue, and the worker is back at the
\* top of its loop
C8_Witness ==
    /\ raised
    /\ Len(jobs) > 0
    /\ threads_active = 1
    /\ \E w \in WorkerIds : pc[w] = "acquire" /\ \A x \in WorkerIds \ {w} : ~Live(x)

\* thread t is inside ThreadPool.run
InRun(t) ==
    pc[t] \in {"run_acquire", "run_append", "run_spawn", "run_inc",
               "run_release"}

InCritical(t) ==
    pc[t] \in {"run_append", "run_spawn", "run_inc", "run_release", "fetch",
               "release_exec", "release_exit"}

\* C22: threads_active is never negative; a thread is between acquire and
\* release only while it holds the lock, so the worker's emptiness check and
\* decrement and run's append and spawn decision exclude each other; and
\* whenever the lock is free and a job is queued, threads_active is at least
\* one and some worker is alive, which takes the lock and looks at the
\* queue again before it can exit.
C22_QueuedJobHasLiveWorker ==
    /\ threads_active >= 0
    /\ \A t \in Threads : InCritical(t) => lock = t
    /\ (lock = "free" /\ jobs # <<>>)
          => /\ threads_active >= 1
             /\ \E w \in WorkerIds :
                   pc[w] \in {"acquire", "exec", "job_end", "run_acquire"}

\* the lock is free, jobs are queued and every worker the pool may have is
\* busy with a job
C22_Witness ==
    /\ lock = "free"
    /\ jobs # <<>>
    /\ threads_active = threads_max
    /\ \A w \in WorkerIds : Live(w) => pc[w] = "exec"

\* instance o is referenced outside the cache: a caller keeps it from its
\* last get, or it is in the list a playlist's videos future is set to
Held(o) ==
    \/ \E c \in Consumers : gres[c].obj = o
    \/ \E x \in VideosFutures : futs[x].set /\ o \in Range(futs[x].val)

\* C21: for each id the cache holds, no instance of that class and id other
\* than the cached one is still referenced, also after the id was evicted
\* and fetched again with get.
C21_CachedInstanceIsTheOnlyOne ==
    \A k \in Resident :
        \A o \in 1..Len(objs) :
            (objs[o].cls = k[1] /\ objs[o].id = k[2] /\ Held(o))
              => o = cache[k]

\* no population job was ever handed to the pool for entity o: a summary
\* field future in its __dict__ was put there by a search
NoInfoJob(o) == nsub[o].info = 0

\* C23: once a search has returned to its caller, with a list or with None,
\* every title, channel or thumbnails future that the search created on an
\* entity is set; and a caller that accesses such a field of an entity with
\* no population job is never handed a future that is not set.
C23_SearchLeavesNoFutureUnset ==
    /\ \A c \in Consumers :
          (pc[c] = "idle" /\ res[c].fld = "search")
            => \A o \in 1..Len(objs) :
                  NoInfoJob(o)
                    => \A f \in SummaryFields(objs[o].cls) :
                          objs[o].d[f] # 0 => futs[objs[o].d[f]].set
    /\ \A c \in Consumers :
          (/\ pc[c] = "idle"
           /\ res[c].obj # 0
           /\ res[c].fld \in SummaryFields(objs[res[c].obj].cls)
           /\ NoInfoJob(res[c].obj))
             => futs[res[c].fut].set

=============================================================================
